---- MODULE Spec2Model ----
(***************************************************************************)
(* ACME client (project/acme_client.py) and the issuance sequence that     *)
(* drives it (project/main.py, obtain_certificate).                        *)
(*                                                                         *)
(* The client is single threaded: every HTTP call blocks.  One action of   *)
(* the model is one client operation together with the answers the CA     *)
(* gives to the requests the operation sends; poll_resource_status, which  *)
(* loops without bound, is one action per loop iteration.                  *)
(*                                                                         *)
(* controller() of main.py runs obtain_certificate in one thread next to   *)
(* the flask server of /shutdown; SpecApp interleaves the two.             *)
(*                                                                         *)
(* Python values: None is the string "None".  A text (str or bytes) is a   *)
(* sequence of chunks, "" is <<>>; a dict is [dict |-> record].            *)
(* json.dumps, base64url and the ECDSA signature are symbolic injective    *)
(* constructors, so decoding is a real inverse and can be refuted.         *)
(***************************************************************************)
EXTENDS Integers, Sequences, FiniteSets, TLC

VARIABLES
    revokeCert_url,    \* ACMEClient.revokeCert_url
    newNonce_url,      \* ACMEClient.newNonce_url
    newAccount_url,    \* ACMEClient.newAccount_url
    newOrder_url,      \* ACMEClient.newOrder_url
    account_kid,       \* ACMEClient.account_kid
    nextNonce,         \* ACMEClient.nextNonce (written by get_nonce only)
    srvNonce,          \* the CA: number of Replay-Nonce values issued so far
    trace,             \* history: requests sent, envelopes built, provisioning calls
    ret,               \* the last client operation that returned, and how
    pc,                \* position of the single control thread
    args,              \* command line of main.py (challenge, domain, revoke)
    run,               \* locals of obtain_certificate
    frame,             \* arguments of the client method that is in progress
    sleeps,            \* number of time.sleep(1) calls so far
    calls,             \* number of client operations invoked directly
    polls,             \* number of those that were poll_resource_status
    ca,                \* the CA: the status it gives a nonce request it serves
    app                \* main.py as a process: its threads and the HTTPS server

client == <<revokeCert_url, newNonce_url, newAccount_url, newOrder_url, account_kid>>
urls == <<revokeCert_url, newNonce_url, newAccount_url, newOrder_url>>
vars == <<revokeCert_url, newNonce_url, newAccount_url, newOrder_url, account_kid,
          nextNonce, srvNonce, trace, ret, pc, args, run, frame, sleeps, calls, polls, ca,
          app>>

-----------------------------------------------------------------------------
(* Bounds *)

MaxSleeps == 2       \* poll iterations that end in time.sleep(1), per run
MaxRefusals == 1     \* nonce requests the CA refuses, per run
MaxCalls == 3        \* client operations invoked directly on one client
MaxPollCalls == 1    \* direct calls of poll_resource_status on one client
MaxDomains == 2      \* --domain flags
MaxShutdowns == 1    \* requests for /shutdown the controller serves

-----------------------------------------------------------------------------
(* Values *)

None == "None"

\* the CA's directory document (spec.md, end-to-end scenario 1)
DirectoryJSON ==
    [newNonce |-> "https://ca/nonce", newAccount |-> "https://ca/acct",
     newOrder |-> "https://ca/order", revokeCert |-> "https://ca/revoke"]

\* RFC 8555 order statuses
OrderStatuses == {"pending", "ready", "processing", "valid", "invalid"}
\* status codes the CA answers a signed request or the directory request
\* with: 200 and 201 are the contractual statuses of the operations, so each
\* operation sees its own status and another one
Statuses == {200, 201}
\* a poll is answered 200 with the resource, or refused; the body of a
\* refusal may carry a status member as well
PollAnswers == ({200} \X OrderStatuses) \cup ({400} \X {"valid", "invalid"})
\* the same for the polls of an issuance run
RunPollAnswers == ({200} \X OrderStatuses) \cup {<<400, "valid">>}

\* nonce requests refused so far
Refusals == Cardinality({i \in 1..Len(trace) :
                           /\ trace[i].ev = "get"
                           /\ trace[i].url = DirectoryJSON.newNonce
                           /\ trace[i].replay_nonce = "None"})
\* a CA serves nonce requests with 200 or with 204, or refuses one
NonceStatuses == {ca.nonce_status} \cup (IF Refusals < MaxRefusals THEN {400} ELSE {})
\* Location headers of the account resource
Locations == {"https://ca/acct/7", "https://ca/acct/8"}

Domains == [i \in 1..(MaxDomains + 1) |-> "d" \o ToString(i) \o ".example"]
AuthzUrl(i) == "https://ca/authz/" \o ToString(i)
ChallUrl(i) == "https://ca/chall/" \o ToString(i)
OrderUrl == "https://ca/order/1"
FinalizeUrl == "https://ca/order/1/finalize"
CertUrl == "https://ca/cert/1"

\* the k-th Replay-Nonce value the CA issues: fresh each time it is asked
FreshNonce(k) == "nonce-" \o ToString(k + 1)

\* ACMEClient.starting_success_states etc.
starting_success_states == {"ready", "processing", "valid"}
starting_failure_states == {"invalid"}
final_success_states == {"valid"}
\* the failure set of the second poll taken from the first
final_failure_states_starting == {"invalid"}
final_failure_states == {"ready", "invalid", "pending"}

-----------------------------------------------------------------------------
(* Encodings *)

Dict(r) == [dict |-> r]
EmptyStr == <<>>

json_dumps(obj) == <<[json |-> obj]>>
json_loads(s) == s[1].json

\* base64.urlsafe_b64encode(data).rstrip("="): the empty input encodes to ""
encode_b64(data) == IF data = <<>> THEN <<>> ELSE <<[b64 |-> data]>>
decode_b64(s) == IF s = <<>> THEN <<>> ELSE s[1].b64

\* "{}.{}".format(h, p)
SigningInput(h, p) == h \o <<".">> \o p
\* self.signing_alg.sign(SHA256.new(input))
Sign(input) == <<[sig |-> [sha256 |-> input]]>>

KeyX == <<"Q.x">>
KeyY == <<"Q.y">>

create_jwk_object ==
    [crv |-> "P-256", kid |-> "1", kty |-> "EC",
     x |-> encode_b64(KeyX), y |-> encode_b64(KeyY)]

-----------------------------------------------------------------------------
(* Envelope builders.  The nonce parameter is the value get_nonce()        *)
(* returned inside the builder.                                            *)

create_jose_jwk(url, payload, nonce) ==
    LET protected == [alg |-> "ES256", jwk |-> create_jwk_object,
                      nonce |-> nonce, url |-> url]
        encoded_header == encode_b64(json_dumps(protected))
        encoded_payload == encode_b64(json_dumps(payload))
    IN  [protected |-> encoded_header,
         payload |-> encoded_payload,
         signature |-> encode_b64(Sign(SigningInput(encoded_header, encoded_payload)))]

\* create_jose_kid encoding the empty string like any other payload
create_jose_kid_encoded_empty(url, payload, nonce) ==
    LET protected == [alg |-> "ES256", kid |-> account_kid,
                      nonce |-> nonce, url |-> url]
        encoded_header == encode_b64(json_dumps(protected))
        encoded_payload == encode_b64(json_dumps(payload))
    IN  [protected |-> encoded_header,
         payload |-> encoded_payload,
         signature |-> encode_b64(Sign(SigningInput(encoded_header, encoded_payload)))]

\* create_jose_kid with the jwk member left in the header
create_jose_kid_with_jwk(url, payload, nonce) ==
    LET protected == [alg |-> "ES256", jwk |-> create_jwk_object, kid |-> account_kid,
                      nonce |-> nonce, url |-> url]
        encoded_header == encode_b64(json_dumps(protected))
        encoded_payload == IF payload = EmptyStr THEN EmptyStr
                           ELSE encode_b64(json_dumps(payload))
        input == IF payload = EmptyStr THEN encoded_header \o <<".">>
                 ELSE SigningInput(encoded_header, encoded_payload)
    IN  [protected |-> encoded_header,
         payload |-> encoded_payload,
         signature |-> encode_b64(Sign(input))]

create_jose_kid(url, payload, nonce) ==
    LET protected == [alg |-> "ES256", kid |-> account_kid,
                      nonce |-> nonce, url |-> url]
        encoded_header == encode_b64(json_dumps(protected))
        encoded_payload == IF payload = EmptyStr THEN EmptyStr
                           ELSE encode_b64(json_dumps(payload))
        input == IF payload = EmptyStr THEN encoded_header \o <<".">>
                 ELSE SigningInput(encoded_header, encoded_payload)
    IN  [protected |-> encoded_header,
         payload |-> encoded_payload,
         signature |-> encode_b64(Sign(input))]

\* the protected header of an envelope, decoded
Header(env) == json_loads(decode_b64(env.protected))

-----------------------------------------------------------------------------
(* get_nonce() against a CA that answers the nonce request with status st. *)
(* ret is the value returned; events are the requests sent; next and srv   *)
(* are nextNonce and the CA's counter afterwards.                          *)

\* get_nonce handing back the stored nonce when the request is refused
get_nonce_stale(st) ==
    IF newNonce_url = None
    THEN [ret |-> None, events |-> <<>>, next |-> nextNonce, srv |-> srvNonce]
    ELSE IF st = 200 \/ st = 204
    THEN [ret |-> FreshNonce(srvNonce),
          events |-> <<[ev |-> "get", url |-> newNonce_url, status |-> st,
                        replay_nonce |-> FreshNonce(srvNonce)]>>,
          next |-> FreshNonce(srvNonce), srv |-> srvNonce + 1]
    ELSE [ret |-> nextNonce,
          events |-> <<[ev |-> "get", url |-> newNonce_url, status |-> st,
                        replay_nonce |-> None]>>,
          next |-> nextNonce, srv |-> srvNonce]

get_nonce(st) ==
    IF newNonce_url = None
    THEN [ret |-> None, events |-> <<>>, next |-> nextNonce, srv |-> srvNonce]
    ELSE IF st = 200 \/ st = 204
    THEN [ret |-> FreshNonce(srvNonce),
          events |-> <<[ev |-> "get", url |-> newNonce_url, status |-> st,
                        replay_nonce |-> FreshNonce(srvNonce)]>>,
          next |-> FreshNonce(srvNonce), srv |-> srvNonce + 1]
    ELSE [ret |-> None,
          events |-> <<[ev |-> "get", url |-> newNonce_url, status |-> st,
                        replay_nonce |-> None]>>,
          next |-> nextNonce, srv |-> srvNonce]

\* jose_session.post(url, json=env): requests raises MissingSchema for the
\* URL None and sends nothing; otherwise the CA answers with status st and a
\* fresh Replay-Nonce header, which the client does not read.
Post(op, url, env, st, body, srv) ==
    IF url = None
    THEN [raised |-> TRUE, events |-> <<>>, srv |-> srv]
    ELSE [raised |-> FALSE,
          events |-> <<[ev |-> "post", op |-> op, url |-> url, env |-> env,
                        status |-> st, body |-> body,
                        replay_nonce |-> FreshNonce(srv)]>>,
          srv |-> srv + 1]

\* builder, then post: the part every signed operation starts with
SignedPost(op, mode, url, payload, nst, st, body) ==
    LET g == get_nonce(nst)
        env == IF mode = "jwk" THEN create_jose_jwk(url, payload, g.ret)
               ELSE create_jose_kid(url, payload, g.ret)
        p == Post(op, url, env, st, body, g.srv)
    IN  [raised |-> p.raised,
         events |-> g.events \o <<[ev |-> "build", op |-> op, payload |-> payload,
                                       env |-> env]>> \o p.events,
         next |-> g.next, srv |-> p.srv]

Commit(r) ==
    /\ trace' = trace \o r.events
    /\ nextNonce' = r.next
    /\ srvNonce' = r.srv

\* what a client operation handed back: outcome is "value", "None", "False"
\* or "raise" (an exception left the method)
Returned(op, outcome, value) == [op |-> op, outcome |-> outcome, value |-> value]

\* json.dumps(key, separators=(',', ':'))
json_dumps_compact(obj) == <<[json |-> obj, separators |-> "compact"]>>
SHA256(data) == <<[sha256 |-> data]>>

\* create_key_authorization hashing the JWK of the protected header
create_key_authorization_header_jwk(token) ==
    token \o <<".">> \o encode_b64(SHA256(json_dumps_compact(create_jwk_object)))

create_key_authorization(token) ==
    LET key == [crv |-> "P-256", kty |-> "EC",
                x |-> encode_b64(KeyX), y |-> encode_b64(KeyY)]
        hash_val == encode_b64(SHA256(json_dumps_compact(key)))
    IN  token \o <<".">> \o hash_val

-----------------------------------------------------------------------------
(* Client operations.  Each is the whole method; nst is the CA's answer to *)
(* the nonce request of the builder, st its answer to the request itself.  *)

\* get_directory storing the endpoints before it looks at the status
get_directory_unchecked(st) ==
    /\ trace' = Append(trace, [ev |-> "get", url |-> args.dir, status |-> st,
                               replay_nonce |-> None])
    /\ revokeCert_url' = DirectoryJSON.revokeCert
    /\ newNonce_url' = DirectoryJSON.newNonce
    /\ newAccount_url' = DirectoryJSON.newAccount
    /\ newOrder_url' = DirectoryJSON.newOrder
    /\ ret' = IF st = 200 THEN Returned("get_directory", "value", DirectoryJSON)
              ELSE Returned("get_directory", "None", None)
    /\ UNCHANGED <<account_kid, nextNonce, srvNonce>>

get_directory(st) ==
    /\ trace' = Append(trace, [ev |-> "get", url |-> args.dir, status |-> st,
                               replay_nonce |-> None])
    /\ IF st = 200
       THEN /\ revokeCert_url' = DirectoryJSON.revokeCert
            /\ newNonce_url' = DirectoryJSON.newNonce
            /\ newAccount_url' = DirectoryJSON.newAccount
            /\ newOrder_url' = DirectoryJSON.newOrder
            /\ ret' = Returned("get_directory", "value", DirectoryJSON)
       ELSE /\ UNCHANGED urls
            /\ ret' = Returned("get_directory", "None", None)
    /\ UNCHANGED <<account_kid, nextNonce, srvNonce>>

get_nonce_call(nst) ==
    LET g == get_nonce(nst)
    IN  /\ trace' = trace \o g.events
        /\ nextNonce' = g.next
        /\ srvNonce' = g.srv
        /\ ret' = Returned("get_nonce", IF g.ret = None THEN "None" ELSE "value", g.ret)
        /\ UNCHANGED client

\* create_account taking the URL it posted to for the account identifier
create_account_request_url(nst, st, location) ==
    LET payload == Dict([termsOfServiceAgreed |-> TRUE])
        r == SignedPost("create_account", "jwk", newAccount_url, payload, nst, st, location)
    IN  /\ Commit(r)
        /\ account_kid' = IF ~r.raised /\ st = 201 THEN newAccount_url ELSE account_kid
        /\ ret' = IF r.raised THEN Returned("create_account", "raise", None)
                  ELSE IF st = 201 THEN Returned("create_account", "value", location)
                  ELSE Returned("create_account", "None", None)
        /\ UNCHANGED urls

create_account(nst, st, location) ==
    LET payload == Dict([termsOfServiceAgreed |-> TRUE])
        r == SignedPost("create_account", "jwk", newAccount_url, payload, nst, st, location)
    IN  /\ Commit(r)
        /\ account_kid' = IF ~r.raised /\ st = 201 THEN location ELSE account_kid
        /\ ret' = IF r.raised THEN Returned("create_account", "raise", None)
                  ELSE IF st = 201 THEN Returned("create_account", "value", location)
                  ELSE Returned("create_account", "None", None)
        /\ UNCHANGED urls

\* the order the CA creates: one authorization per identifier
OrderBody(domains) ==
    [authorizations |-> [i \in 1..Len(domains) |-> AuthzUrl(i)],
     finalize |-> FinalizeUrl]

\* issue_certificate signing with create_jose_jwk
issue_certificate_jwk(domains, nst, st) ==
    LET payload == Dict([identifiers |-> [i \in 1..Len(domains) |->
                                             [type |-> "dns", value |-> domains[i]]],
                         notBefore |-> "begin", notAfter |-> "begin+duration"])
        r == SignedPost("issue_certificate", "jwk", newOrder_url, payload, nst, st, None)
    IN  /\ Commit(r)
        /\ ret' = IF r.raised THEN Returned("issue_certificate", "raise", None)
                  ELSE IF st = 201
                  THEN Returned("issue_certificate", "value",
                                [order |-> OrderBody(domains), location |-> OrderUrl])
                  ELSE Returned("issue_certificate", "None", None)
        /\ UNCHANGED client

issue_certificate(domains, nst, st) ==
    LET payload == Dict([identifiers |-> [i \in 1..Len(domains) |->
                                             [type |-> "dns", value |-> domains[i]]],
                         notBefore |-> "begin", notAfter |-> "begin+duration"])
        r == SignedPost("issue_certificate", "kid", newOrder_url, payload, nst, st, None)
    IN  /\ Commit(r)
        /\ ret' = IF r.raised THEN Returned("issue_certificate", "raise", None)
                  ELSE IF st = 201
                  THEN Returned("issue_certificate", "value",
                                [order |-> OrderBody(domains), location |-> OrderUrl])
                  ELSE Returned("issue_certificate", "None", None)
        /\ UNCHANGED client

validate_certificate(validate_url, nst, st) ==
    LET payload == Dict(<<>>)
        r == SignedPost("validate_certificate", "kid", validate_url, payload, nst, st, None)
    IN  /\ Commit(r)
        /\ ret' = IF r.raised THEN Returned("validate_certificate", "raise", None)
                  ELSE IF st = 200 THEN Returned("validate_certificate", "value", validate_url)
                  ELSE Returned("validate_certificate", "None", None)
        /\ UNCHANGED client

download_certificate(certificate_url, nst, st) ==
    LET r == SignedPost("download_certificate", "kid", certificate_url, EmptyStr, nst, st, None)
    IN  /\ Commit(r)
        /\ ret' = IF r.raised THEN Returned("download_certificate", "raise", None)
                  ELSE IF st = 200 THEN Returned("download_certificate", "value", <<"pem">>)
                  ELSE Returned("download_certificate", "None", None)
        /\ UNCHANGED client

revoke_certificate(certificate, nst, st) ==
    LET payload == Dict([certificate |-> encode_b64(certificate)])
        r == SignedPost("revoke_certificate", "kid", revokeCert_url, payload, nst, st, None)
    IN  /\ Commit(r)
        /\ ret' = IF r.raised THEN Returned("revoke_certificate", "raise", None)
                  ELSE IF st = 200 THEN Returned("revoke_certificate", "value", <<"revoked">>)
                  ELSE Returned("revoke_certificate", "None", None)
        /\ UNCHANGED client

-----------------------------------------------------------------------------
(* Authorizations *)

ChallengeTypeLists ==
    {<<"tls-alpn-01">>, <<"http-01", "dns-01">>, <<"dns-01", "dns-01">>,
     <<"http-01", "http-01">>}

\* the j-th challenge of the authorization of the i-th identifier
Challenge(i, j, type) ==
    [type |-> type, token |-> <<"token-" \o ToString(i) \o "-" \o ToString(j)>>,
     url |-> ChallUrl(i) \o "/" \o ToString(j), status |-> "pending"]

Authorization(i, types) ==
    [identifier |-> [type |-> "dns", value |-> Domains[i]],
     challenges |-> [j \in 1..Len(types) |-> Challenge(i, j, types[j])],
     status |-> "pending"]

Matches(auth_scheme, challenge) ==
    \/ auth_scheme = "dns01" /\ challenge.type = "dns-01"
    \/ auth_scheme = "http01" /\ challenge.type = "http-01"

\* the loop of authorize_certificate keeping the last matching challenge
LastMatch(challenges, auth_scheme) ==
    IF \E j \in 1..Len(challenges) : Matches(auth_scheme, challenges[j])
    THEN CHOOSE j \in 1..Len(challenges) :
            /\ Matches(auth_scheme, challenges[j])
            /\ \A k \in (j + 1)..Len(challenges) : ~Matches(auth_scheme, challenges[k])
    ELSE 0

\* index of the challenge the loop of authorize_certificate returns, 0 if
\* the loop runs off the end of the list
FirstMatch(challenges, auth_scheme) ==
    IF \E j \in 1..Len(challenges) : Matches(auth_scheme, challenges[j])
    THEN CHOOSE j \in 1..Len(challenges) :
            /\ Matches(auth_scheme, challenges[j])
            /\ \A k \in 1..(j - 1) : ~Matches(auth_scheme, challenges[k])
    ELSE 0

\* the call to the DNS server or to the HTTP challenge server
Provision(authz, challenge, auth_scheme) ==
    LET key_auth == create_key_authorization(challenge.token)
    IN  IF auth_scheme = "dns01"
        THEN [ev |-> "zone_add_TXT",
              name |-> "_acme-challenge." \o authz.identifier.value,
              value |-> encode_b64(SHA256(key_auth))]
        ELSE [ev |-> "register_http_challenge",
              token |-> challenge.token, key_auth |-> key_auth]

authorize_certificate(auth_url, auth_scheme, nst, st, authz) ==
    LET r == SignedPost("authorize_certificate", "kid", auth_url, EmptyStr, nst, st,
                        IF st = 200 THEN authz ELSE None)
        j == IF ~r.raised /\ st = 200 THEN FirstMatch(authz.challenges, auth_scheme) ELSE 0
    IN  /\ trace' = trace \o r.events \o
                    (IF j = 0 THEN <<>>
                     ELSE <<Provision(authz, authz.challenges[j], auth_scheme)>>)
        /\ nextNonce' = r.next
        /\ srvNonce' = r.srv
        /\ ret' = IF r.raised THEN Returned("authorize_certificate", "raise", None)
                  ELSE IF j = 0 THEN Returned("authorize_certificate", "None", None)
                  ELSE Returned("authorize_certificate", "value", authz.challenges[j])
        /\ UNCHANGED client

-----------------------------------------------------------------------------
(* poll_resource_status and finalize_certificate.  f holds the arguments   *)
(* of the method in progress.                                              *)

\* seen is history: the status members of the 200 answers the current
\* poll_resource_status loop has read
NoFrame == [caller |-> None, order_url |-> None, finalize_url |-> None,
            success_states |-> {}, failure_states |-> {}, seen |-> <<>>]

See(f, st, status) == IF f.order_url # None /\ st = 200
                      THEN [f EXCEPT !.seen = Append(@, status)] ELSE f

\* the loop body without the test of the HTTP status
PollOutcome_any_status(st, status, success_states, failure_states) ==
    IF status \in success_states THEN "value"
    ELSE IF status \in failure_states THEN "False"
    ELSE "sleep"

\* the loop body with the failure branch outside the test of the HTTP status
PollOutcome_failure_any_status(st, status, success_states, failure_states) ==
    IF st = 200 /\ status \in success_states THEN "value"
    ELSE IF status \in failure_states THEN "False"
    ELSE "sleep"

\* one pass of the while loop, after the answer (st, status) has come in:
\* "value" returns the resource, "False" returns False, "sleep" goes round
PollOutcome(st, status, success_states, failure_states) ==
    IF st = 200 /\ status \in success_states THEN "value"
    ELSE IF st = 200 /\ status \in failure_states THEN "False"
    ELSE "sleep"

\* the signed POST-as-GET of one pass and the sleep that may follow it
PollPass(url, success_states, failure_states, nst, st, status) ==
    LET r == SignedPost("poll_resource_status", "kid", url, EmptyStr, nst, st, status)
        o == IF r.raised THEN "raise"
             ELSE PollOutcome(st, status, success_states, failure_states)
    IN  /\ Commit(r)
        /\ o = "sleep" => sleeps < MaxSleeps
        /\ sleeps' = IF o = "sleep" THEN sleeps + 1 ELSE sleeps
        /\ UNCHANGED client

PollResult(url, success_states, failure_states, st, status) ==
    IF url = None THEN "raise"
    ELSE PollOutcome(st, status, success_states, failure_states)

-----------------------------------------------------------------------------
(* obtain_certificate (main.py) *)

NoRun == [result |-> "running", authorizations |-> <<>>, finalize_url |-> None,
          order_url |-> None, validate_urls |-> <<>>, i |-> 1,
          certificate_url |-> None, written |-> FALSE]

\* return False
Abort == /\ pc' = "returned"
         /\ run' = [run EXCEPT !.result = "False"]
\* an exception leaves obtain_certificate
Raise == /\ pc' = "returned"
         /\ run' = [run EXCEPT !.result = "raise"]

\* the method in progress hands r back: a direct caller just gets it,
\* obtain_certificate goes on after its call of finalize_certificate
Return(f, r) ==
    /\ ret' = r
    /\ frame' = f
    /\ IF f.caller = "api"
       THEN pc' = "api" /\ UNCHANGED run
       ELSE IF r.outcome = "raise" THEN Raise
       ELSE IF r.outcome = "value"
       THEN /\ pc' = "download_certificate"
            /\ run' = [run EXCEPT !.certificate_url = r.value]
       ELSE Abort

FinalizePoll1(f, nst, st, status) ==
    LET o == PollResult(f.order_url, starting_success_states, starting_failure_states,
                        st, status)
    IN  /\ PollPass(f.order_url, starting_success_states, starting_failure_states,
                    nst, st, status)
        /\ CASE o = "value" -> /\ pc' = "finalize_post"
                                /\ frame' = [See(f, st, status) EXCEPT !.seen = <<>>]
                                /\ UNCHANGED <<ret, run>>
             [] o = "sleep" -> /\ pc' = "finalize_poll1"
                                /\ frame' = See(f, st, status)
                                /\ UNCHANGED <<ret, run>>
             [] o = "False" -> Return(See(f, st, status),
                                      Returned("finalize_certificate", "False", None))
             [] o = "raise" -> Return(f, Returned("finalize_certificate", "raise", None))

\* the finalize POST without the test of its status
FinalizePost_unchecked(f, nst, st) ==
    LET payload == Dict([csr |-> encode_b64(<<"der">>)])
        r == SignedPost("finalize_certificate", "kid", f.finalize_url, payload, nst, st, None)
    IN  /\ Commit(r)
        /\ UNCHANGED <<client, sleeps>>
        /\ IF r.raised THEN Return(f, Returned("finalize_certificate", "raise", None))
           ELSE pc' = "finalize_poll2" /\ frame' = f /\ UNCHANGED <<ret, run>>

FinalizePost(f, nst, st) ==
    LET payload == Dict([csr |-> encode_b64(<<"der">>)])
        r == SignedPost("finalize_certificate", "kid", f.finalize_url, payload, nst, st, None)
    IN  /\ Commit(r)
        /\ UNCHANGED <<client, sleeps>>
        /\ IF r.raised THEN Return(f, Returned("finalize_certificate", "raise", None))
           ELSE IF st = 200
           THEN pc' = "finalize_poll2" /\ frame' = f /\ UNCHANGED <<ret, run>>
           ELSE Return(f, Returned("finalize_certificate", "None", None))

FinalizePoll2(f, nst, st, status) ==
    LET o == PollResult(f.order_url, final_success_states, final_failure_states,
                        st, status)
    IN  /\ PollPass(f.order_url, final_success_states, final_failure_states,
                    nst, st, status)
        /\ CASE o = "value" -> Return(See(f, st, status),
                                      Returned("finalize_certificate", "value", CertUrl))
             [] o = "sleep" -> /\ pc' = "finalize_poll2"
                                /\ frame' = See(f, st, status)
                                /\ UNCHANGED <<ret, run>>
             [] o = "False" -> Return(See(f, st, status),
                                      Returned("finalize_certificate", "False", None))
             [] o = "raise" -> Return(f, Returned("finalize_certificate", "raise", None))

ObtainGetDirectory ==
    /\ pc = "get_directory"
    /\ \E st \in Statuses : get_directory(st)
    /\ IF ret'.outcome = "value" THEN pc' = "create_account" /\ UNCHANGED run ELSE Abort
    /\ UNCHANGED <<args, frame, sleeps, calls, polls, ca, app>>

ObtainCreateAccount ==
    /\ pc = "create_account"
    /\ \E nst \in NonceStatuses, st \in Statuses, loc \in Locations :
          create_account(nst, st, loc)
    /\ IF ret'.outcome = "raise" THEN Raise
       ELSE IF ret'.outcome = "value" THEN pc' = "issue_certificate" /\ UNCHANGED run
       ELSE Abort
    /\ UNCHANGED <<args, frame, sleeps, calls, polls, ca, app>>

\* certificate_order, order_url = acme_client.issue_certificate(args.domain):
\* unpacking None is a TypeError
ObtainIssueCertificate ==
    /\ pc = "issue_certificate"
    /\ \E nst \in NonceStatuses, st \in Statuses :
          issue_certificate(args.domain, nst, st)
    /\ IF ret'.outcome \in {"raise", "None"} THEN Raise
       ELSE /\ pc' = "authorize_certificate"
            /\ run' = [run EXCEPT !.authorizations = ret'.value.order.authorizations,
                                  !.finalize_url = ret'.value.order.finalize,
                                  !.order_url = ret'.value.location,
                                  !.validate_urls = <<>>, !.i = 1]
    /\ UNCHANGED <<args, frame, sleeps, calls, polls, ca, app>>

ObtainAuthorize ==
    /\ pc = "authorize_certificate"
    /\ \E nst \in NonceStatuses, st \in Statuses, types \in ChallengeTypeLists :
          authorize_certificate(run.authorizations[run.i], args.challenge, nst, st,
                                Authorization(run.i, types))
    /\ IF ret'.outcome = "raise" THEN Raise
       ELSE IF ret'.outcome = "None" THEN Abort
       ELSE /\ run' = [run EXCEPT !.validate_urls = Append(@, ret'.value.url),
                                  !.i = IF run.i = Len(run.authorizations) THEN 1 ELSE @ + 1]
            /\ pc' = IF run.i = Len(run.authorizations) THEN "validate_certificate"
                     ELSE "authorize_certificate"
    /\ UNCHANGED <<args, frame, sleeps, calls, polls, ca, app>>

\* obtain_certificate leaving the validate loop after its first pass
ObtainValidate_once ==
    /\ pc = "validate_certificate"
    /\ \E nst \in NonceStatuses, st \in Statuses :
          validate_certificate(run.validate_urls[run.i], nst, st)
    /\ IF ret'.outcome = "raise" THEN Raise /\ frame' = frame
       ELSE IF ret'.outcome = "None" THEN Abort /\ frame' = frame
       ELSE /\ run' = run
            /\ pc' = "finalize_poll1"
            /\ frame' = [caller |-> "obtain_certificate", order_url |-> run.order_url,
                         finalize_url |-> run.finalize_url,
                         success_states |-> {}, failure_states |-> {}, seen |-> <<>>]
    /\ UNCHANGED <<args, sleeps, calls, polls, ca, app>>

ObtainValidate ==
    /\ pc = "validate_certificate"
    /\ \E nst \in NonceStatuses, st \in Statuses :
          validate_certificate(run.validate_urls[run.i], nst, st)
    /\ IF ret'.outcome = "raise" THEN Raise /\ frame' = frame
       ELSE IF ret'.outcome = "None" THEN Abort /\ frame' = frame
       ELSE IF run.i < Len(run.validate_urls)
       THEN /\ run' = [run EXCEPT !.i = @ + 1]
            /\ pc' = "validate_certificate"
            /\ frame' = frame
       ELSE /\ run' = run
            /\ pc' = "finalize_poll1"
            /\ frame' = [caller |-> "obtain_certificate", order_url |-> run.order_url,
                         finalize_url |-> run.finalize_url,
                         success_states |-> {}, failure_states |-> {}, seen |-> <<>>]
    /\ UNCHANGED <<args, sleeps, calls, polls, ca, app>>

ObtainFinalizePoll1 ==
    /\ pc = "finalize_poll1"
    /\ \E nst \in NonceStatuses, a \in RunPollAnswers :
          FinalizePoll1(frame, nst, a[1], a[2])
    /\ UNCHANGED <<args, calls, polls, ca, app>>

ObtainFinalizePost ==
    /\ pc = "finalize_post"
    /\ \E nst \in NonceStatuses, st \in Statuses : FinalizePost(frame, nst, st)
    /\ UNCHANGED <<args, calls, polls, ca, app>>

ObtainFinalizePoll2 ==
    /\ pc = "finalize_poll2"
    /\ \E nst \in NonceStatuses, a \in RunPollAnswers :
          FinalizePoll2(frame, nst, a[1], a[2])
    /\ UNCHANGED <<args, calls, polls, ca, app>>

\* download, write_certificates, load_pem_x509_certificate; written: key.pem
\* and cert.pem hold the key and the downloaded certificate
ObtainDownload ==
    /\ pc = "download_certificate"
    /\ \E nst \in NonceStatuses, st \in Statuses :
          download_certificate(run.certificate_url, nst, st)
    /\ IF ret'.outcome = "raise" THEN Raise
       ELSE IF ret'.outcome = "None" THEN Abort
       ELSE IF args.revoke
       THEN pc' = "revoke_certificate" /\ run' = [run EXCEPT !.written = TRUE]
       ELSE pc' = "returned" /\ run' = [run EXCEPT !.result = "value", !.written = TRUE]
    /\ UNCHANGED <<args, frame, sleeps, calls, polls, ca, app>>

ObtainRevoke ==
    /\ pc = "revoke_certificate"
    /\ \E nst \in NonceStatuses, st \in Statuses :
          revoke_certificate(<<"der(pem)">>, nst, st)
    /\ IF ret'.outcome = "raise" THEN Raise
       ELSE pc' = "returned" /\ run' = [run EXCEPT !.result = "value"]
    /\ UNCHANGED <<args, frame, sleeps, calls, polls, ca, app>>

DomainLists == {SubSeq(Domains, 1, n) : n \in 1..MaxDomains}

\* obtain_certificate or the client called without controller()
NoApp == [controller_thread |-> None, https_server_thread |-> None,
          https_server |-> "off", exited |-> FALSE, shutdowns |-> 0]

ClientInit ==
    /\ revokeCert_url = None
    /\ newNonce_url = None
    /\ newAccount_url = None
    /\ newOrder_url = None
    /\ account_kid = None
    /\ nextNonce = None
    /\ srvNonce = 0
    /\ trace = <<>>
    /\ ret = Returned("__init__", "None", None)
    /\ run = NoRun
    /\ frame = NoFrame
    /\ sleeps = 0
    /\ calls = 0
    /\ polls = 0
    /\ ca \in [nonce_status : {200, 204}]

Init ==
    /\ ClientInit
    /\ app = NoApp
    /\ pc = "get_directory"
    /\ args \in [dir : {"https://ca/dir"}, challenge : {"dns01", "http01"},
                 domain : DomainLists, revoke : BOOLEAN]

Next ==
    \/ ObtainGetDirectory
    \/ ObtainCreateAccount
    \/ ObtainIssueCertificate
    \/ ObtainAuthorize
    \/ ObtainValidate
    \/ ObtainFinalizePoll1
    \/ ObtainFinalizePost
    \/ ObtainFinalizePoll2
    \/ ObtainDownload
    \/ ObtainRevoke

Spec == Init /\ [][Next]_vars

-----------------------------------------------------------------------------
(* The client used directly: its operations called in any order.           *)

PollConfigs ==
    {<<starting_success_states, starting_failure_states>>,
     <<final_success_states, final_failure_states>>,
     <<{"valid"}, {"invalid"}>>}

\* one pass of poll_resource_status called on its own
PollStep(f, nst, st, status) ==
    LET o == PollResult(f.order_url, f.success_states, f.failure_states, st, status)
    IN  /\ PollPass(f.order_url, f.success_states, f.failure_states, nst, st, status)
        /\ CASE o = "value" -> Return(See(f, st, status),
                                      Returned("poll_resource_status", "value", status))
             [] o = "sleep" -> /\ pc' = "poll"
                                /\ frame' = See(f, st, status)
                                /\ UNCHANGED <<ret, run>>
             [] o = "False" -> Return(See(f, st, status),
                                      Returned("poll_resource_status", "False", None))
             [] o = "raise" -> Return(f, Returned("poll_resource_status", "raise", None))

Called == /\ pc = "api"
          /\ calls < MaxCalls
          /\ calls' = calls + 1
          /\ UNCHANGED <<args, ca, app>>

Simple == UNCHANGED <<pc, run, frame, sleeps, polls>>

ApiGetDirectory ==
    Called /\ Simple /\ \E st \in Statuses : get_directory(st)

ApiGetNonce ==
    Called /\ Simple /\ \E nst \in NonceStatuses : get_nonce_call(nst)

ApiCreateAccount ==
    Called /\ Simple /\ \E nst \in NonceStatuses, st \in Statuses, loc \in Locations :
                            create_account(nst, st, loc)

ApiIssueCertificate ==
    Called /\ Simple /\ \E nst \in NonceStatuses, st \in Statuses :
                            issue_certificate(args.domain, nst, st)

ApiAuthorize ==
    Called /\ Simple /\ \E nst \in NonceStatuses, st \in Statuses,
                           types \in ChallengeTypeLists :
                            authorize_certificate(AuthzUrl(1), args.challenge, nst, st,
                                                  Authorization(1, types))

ApiValidate ==
    Called /\ Simple /\ \E nst \in NonceStatuses, st \in Statuses :
                            validate_certificate(ChallUrl(1) \o "/1", nst, st)

ApiDownload ==
    Called /\ Simple /\ \E nst \in NonceStatuses, st \in Statuses :
                            download_certificate(CertUrl, nst, st)

ApiRevoke ==
    Called /\ Simple /\ \E nst \in NonceStatuses, st \in Statuses :
                            revoke_certificate(<<"der(pem)">>, nst, st)

ApiPoll ==
    /\ Called
    /\ polls < MaxPollCalls
    /\ polls' = polls + 1
    /\ \E c \in PollConfigs, nst \in NonceStatuses, a \in PollAnswers :
          PollStep([caller |-> "api", order_url |-> OrderUrl, finalize_url |-> None,
                    success_states |-> c[1], failure_states |-> c[2], seen |-> <<>>],
                   nst, a[1], a[2])

ApiPollAgain ==
    /\ pc = "poll"
    /\ \E nst \in NonceStatuses, a \in PollAnswers : PollStep(frame, nst, a[1], a[2])
    /\ UNCHANGED <<args, calls, polls, ca, app>>

InitApi ==
    /\ ClientInit
    /\ app = NoApp
    /\ pc = "api"
    /\ args \in [dir : {"https://ca/dir"}, challenge : {"dns01", "http01"},
                 domain : {SubSeq(Domains, 1, 1)}, revoke : {FALSE}]

NextApi ==
    \/ ApiGetDirectory
    \/ ApiGetNonce
    \/ ApiCreateAccount
    \/ ApiIssueCertificate
    \/ ApiAuthorize
    \/ ApiValidate
    \/ ApiDownload
    \/ ApiRevoke

SpecApi == InitApi /\ [][NextApi]_vars

\* a client that polls a resource
NextPoll ==
    \/ ApiGetDirectory
    \/ ApiCreateAccount
    \/ ApiPoll
    \/ ApiPollAgain

SpecPoll == InitApi /\ [][NextPoll]_vars

-----------------------------------------------------------------------------
(* The application: controller() starts controller_thread, the flask       *)
(* server of /shutdown, and https_server_thread, which runs                *)
(* start_server_to_use_certificate, then waits for controller_thread and   *)
(* ends the process.  The client is a local of obtain_certificate.         *)

AppStart == [controller_thread |-> "serving",
             https_server_thread |-> "obtain_certificate",
             https_server |-> "off", exited |-> FALSE, shutdowns |-> 0]

\* os._exit has not been called
Running == ~app.exited

\* a step of obtain_certificate, in https_server_thread
HttpsThreadObtain ==
    /\ Running
    /\ app.https_server_thread = "obtain_certificate"
    /\ Next

\* start_server_to_use_certificate going on to start_https_server whatever
\* obtain_certificate handed back
start_server_to_use_certificate_any_result ==
    /\ Running
    /\ app.https_server_thread = "obtain_certificate"
    /\ pc = "returned"
    /\ app' = [app EXCEPT !.https_server_thread = "start_https_server",
                          !.https_server = "on"]
    /\ UNCHANGED <<client, nextNonce, srvNonce, trace, ret, pc, args, run, frame,
                   sleeps, calls, polls, ca>>

\* start_server_to_use_certificate once obtain_certificate is over: a pair
\* is unpacked and its key, an RSA key object, is true, so the HTTPS server
\* starts; False cannot be unpacked (TypeError); an exception that left
\* obtain_certificate goes on up.  Either exception ends the thread only.
start_server_to_use_certificate ==
    /\ Running
    /\ app.https_server_thread = "obtain_certificate"
    /\ pc = "returned"
    /\ app' = CASE run.result = "value" ->
                    [app EXCEPT !.https_server_thread = "start_https_server",
                                !.https_server = "on"]
               [] run.result = "False" ->
                    [app EXCEPT !.https_server_thread = "TypeError"]
               [] OTHER ->
                    [app EXCEPT !.https_server_thread = "raised"]
    /\ UNCHANGED <<client, nextNonce, srvNonce, trace, ret, pc, args, run, frame,
                   sleeps, calls, polls, ca>>

\* route_shutdown writing a field of the client
route_shutdown_reset_account(available) ==
    /\ Running
    /\ app.controller_thread = "serving"
    /\ app.shutdowns < MaxShutdowns
    /\ app' = [app EXCEPT !.shutdowns = @ + 1,
                          !.controller_thread = IF available THEN "terminated" ELSE @]
    /\ account_kid' = None
    /\ UNCHANGED <<urls, nextNonce, srvNonce, trace, ret, pc, args, run, frame,
                   sleeps, calls, polls, ca>>

\* GET /shutdown in controller_thread.  available: the server put
\* werkzeug.server.shutdown into the request environment; then the flask
\* server stops and the thread ends, else RuntimeError fails the request
route_shutdown(available) ==
    /\ Running
    /\ app.controller_thread = "serving"
    /\ app.shutdowns < MaxShutdowns
    /\ app' = [app EXCEPT !.shutdowns = @ + 1,
                          !.controller_thread = IF available THEN "terminated" ELSE @]
    /\ UNCHANGED <<client, nextNonce, srvNonce, trace, ret, pc, args, run, frame,
                   sleeps, calls, polls, ca>>

RouteShutdown == \E available \in BOOLEAN : route_shutdown(available)

\* os._exit(0)
kill_all_processes == app' = [app EXCEPT !.exited = TRUE]

\* controller(): controller_thread.join() returns, kill_all_processes()
ControllerJoin ==
    /\ Running
    /\ app.controller_thread = "terminated"
    /\ kill_all_processes
    /\ UNCHANGED <<client, nextNonce, srvNonce, trace, ret, pc, args, run, frame,
                   sleeps, calls, polls, ca>>

InitApp ==
    /\ ClientInit
    /\ app = AppStart
    /\ pc = "get_directory"
    /\ ca.nonce_status = 200
    /\ args \in [dir : {"https://ca/dir"}, challenge : {"dns01", "http01"},
                 domain : {SubSeq(Domains, 1, 1)}, revoke : BOOLEAN]

NextApp ==
    \/ HttpsThreadObtain
    \/ start_server_to_use_certificate
    \/ RouteShutdown
    \/ ControllerJoin

SpecApp == InitApp /\ [][NextApp]_vars

-----------------------------------------------------------------------------
(* Properties *)

Builds == SelectSeq(trace, LAMBDA e : e.ev = "build")
Posts == SelectSeq(trace, LAMBDA e : e.ev = "post")
IsPost(i) == trace[i].ev = "post"
IsBuild(i) == trace[i].ev = "build"
Mode(env) == IF "jwk" \in DOMAIN Header(env) THEN "jwk" ELSE "kid"

ObtainSteps == {"get_directory", "create_account", "issue_certificate",
                "authorize_certificate", "validate_certificate",
                "finalize_certificate", "download_certificate"}

\* C1: whenever a step of obtain_certificate hands back no usable result
\* (None or False), obtain_certificate has returned False at that step, no
\* exception has left it, and no further request goes to the CA.
C1_OrderlyAbort ==
    (ret.op \in ObtainSteps /\ ret.outcome \in {"None", "False"})
        => (pc = "returned" /\ run.result = "False")

\* C2: no signed request is sent whose envelope was built after get_nonce
\* yielded no value, i.e. every signed request sent carries a nonce.
C2_NoRequestWithoutNonce ==
    \A i \in 1..Len(trace) : IsPost(i) => Header(trace[i].env).nonce # None

\* the nonce endpoint served the request logged at position i of the trace
Served(i) == /\ trace[i].ev = "get"
             /\ trace[i].url = DirectoryJSON.newNonce
             /\ trace[i].status \in {200, 204}

\* C3: given a CA that serves every nonce request it gets with a fresh value,
\* the signed requests sent carry pairwise distinct nonces.
C3_DistinctNonces ==
    Refusals = 0 =>
        \A i, j \in 1..Len(trace) :
            (IsPost(i) /\ IsPost(j) /\ i # j)
                => Header(trace[i].env).nonce # Header(trace[j].env).nonce

\* C4 as stated: every signed request after the first carries the nonce of
\* the answer to the signed request before it.
C4_NonceFromPrecedingResponse ==
    \A k \in 2..Len(Posts) : Header(Posts[k].env).nonce = Posts[k - 1].replay_nonce

\* C4 amended: one nonce is current (nextNonce, the value of the latest nonce
\* request that was served); every envelope carries what the nonce request
\* made while building it gave: the Replay-Nonce of that answer if it was 200
\* or 204, no nonce otherwise; the Replay-Nonce of the answer to a signed
\* request is never stored.
C4_NonceFromNonceRequest ==
    /\ \A i \in 1..Len(trace) :
          IsBuild(i) =>
              Header(trace[i].env).nonce =
                  (IF i > 1 /\ Served(i - 1) THEN trace[i - 1].replay_nonce ELSE None)
    /\ LET served == {i \in 1..Len(trace) : Served(i)}
       IN  nextNonce = IF served = {} THEN None
                       ELSE trace[CHOOSE i \in served : \A j \in served : j <= i].replay_nonce
    /\ \A i \in 1..Len(trace) : IsPost(i) => nextNonce # trace[i].replay_nonce

\* two signed requests went out, the second with a nonce that is not the one
\* the answer to the first carried
C4_Witness ==
    /\ Len(Posts) >= 2
    /\ Header(Posts[2].env).nonce \notin {None, Posts[1].replay_nonce}
    /\ nextNonce = Header(Posts[2].env).nonce

\* C5: poll_resource_status never goes round again after a 200 answer whose
\* status is in successStates or failureStates, and returns only on such an
\* answer: the resource if the status is in successStates, False if it is in
\* failureStates.  frame.seen lists the statuses of the 200 answers so far.
C5_PollEndsAtFirstTerminalStatus ==
    LET S == frame.success_states
        F == frame.failure_states
        seen == frame.seen
        n == Len(seen)
        Open(k) == \A m \in 1..k : seen[m] \notin (S \cup F)
    IN  /\ pc = "poll" => Open(n)
        /\ (pc = "api" /\ ret.op = "poll_resource_status") =>
              /\ n >= 1
              /\ Open(n - 1)
              /\ seen[n] \in S => (ret.outcome = "value" /\ ret.value = seen[n])
              /\ seen[n] \in F => ret.outcome = "False"
              /\ seen[n] \in S \cup F

\* pending, pending, valid with successStates {valid}, failureStates {invalid}
C5_Witness ==
    /\ pc = "api"
    /\ ret.op = "poll_resource_status"
    /\ ret.outcome = "value"
    /\ frame.success_states = {"valid"}
    /\ frame.failure_states = {"invalid"}
    /\ frame.seen = <<"pending", "pending", "valid">>

IsFinalizePost(e) == e.op = "finalize_certificate"
IsPoll(e) == e.op = "poll_resource_status"

\* C6: the finalize POST follows a poll answered 200 with a pre-finalize
\* success status; a poll that follows the finalize POST follows one answered
\* 200; finalize_certificate returns the certificate URL only after a second
\* poll answered 200 with status valid, and a falsy value when the first poll
\* fails, when the finalize POST is not answered 200 and when the second poll
\* fails.
C6_FinalizeOrder ==
    LET P == Posts
        n == Len(P)
        Finalized(k) == \E j \in 1..(k - 1) : IsFinalizePost(P[j])
    IN  /\ \A k \in 1..n :
              IsFinalizePost(P[k]) =>
                  /\ k > 1
                  /\ IsPoll(P[k - 1])
                  /\ P[k - 1].status = 200
                  /\ P[k - 1].body \in starting_success_states
        /\ \A k \in 1..n : \A j \in 1..(k - 1) :
              (IsPoll(P[k]) /\ IsFinalizePost(P[j])) => P[j].status = 200
        /\ ret.op = "finalize_certificate" =>
              /\ ret.outcome \in {"value", "False", "None"}
              /\ ret.outcome = "value" =>
                    /\ ret.value = CertUrl
                    /\ IsPoll(P[n]) /\ Finalized(n)
                    /\ P[n].status = 200 /\ P[n].body \in final_success_states
              /\ (IsPoll(P[n]) /\ ~Finalized(n)) =>
                    (ret.outcome = "False" /\ P[n].body \in starting_failure_states)
              /\ IsFinalizePost(P[n]) => (ret.outcome = "None" /\ P[n].status # 200)
              /\ (IsPoll(P[n]) /\ Finalized(n) /\ P[n].body \notin final_success_states)
                    => (ret.outcome = "False" /\ P[n].body \in final_failure_states)

\* finalize_certificate returned the certificate URL after a second poll
\* that slept at least once
C6_Witness ==
    /\ ret.op = "finalize_certificate"
    /\ ret.outcome = "value"
    /\ Len(frame.seen) >= 2

IsAccountCreated(e) == e.ev = "post" /\ e.op = "create_account" /\ e.status = 201

\* C7: once create_account was answered 201 with Location L, account_kid is L
\* in every later state and every kid-mode envelope built later carries
\* kid = L; no kid-mode request is sent while account_kid is unset.
C7_AccountIdentity ==
    /\ \A i \in 1..Len(trace) :
          IsAccountCreated(trace[i]) =>
              /\ account_kid = trace[i].body
              /\ \A j \in (i + 1)..Len(trace) :
                    (IsBuild(j) /\ Mode(trace[j].env) = "kid")
                        => Header(trace[j].env).kid = trace[i].body
    /\ \A i \in 1..Len(trace) :
          (IsPost(i) /\ Mode(trace[i].env) = "kid") => Header(trace[i].env).kid # None

\* the account was created and the certificate was downloaded under its kid
C7_Witness ==
    /\ \E i \in 1..Len(trace) : IsAccountCreated(trace[i])
    /\ \E j \in 1..Len(trace) :
          /\ IsPost(j)
          /\ trace[j].op = "download_certificate"
          /\ Header(trace[j].env).kid = account_kid
          /\ account_kid \in Locations

\* C8: the decoded protected header of every envelope built has exactly one
\* of the members jwk and kid.
C8_JwkXorKid ==
    \A i \in 1..Len(trace) :
        IsBuild(i) =>
            (("jwk" \in DOMAIN Header(trace[i].env)) # ("kid" \in DOMAIN Header(trace[i].env)))

\* both builders ran, create_jose_kid once before any account existed
C8_Witness ==
    /\ \E i \in 1..Len(trace) : IsBuild(i) /\ "jwk" \in DOMAIN Header(trace[i].env)
    /\ \E i \in 1..Len(trace) :
          /\ IsBuild(i)
          /\ "kid" \in DOMAIN Header(trace[i].env)
          /\ Header(trace[i].env).kid = None

\* C9: in an issuance run the first envelope built, and only that one, is in
\* jwk mode; it is the one of create_account and the first signed request
\* sent; every other envelope is in kid mode.
C9_JwkOnlyForAccount ==
    /\ \A k \in 1..Len(Builds) :
          /\ (Mode(Builds[k].env) = "jwk") <=> (k = 1)
          /\ (Builds[k].op = "create_account") <=> (k = 1)
    /\ \A k \in 1..Len(Posts) :
          (Posts[k].op = "create_account") <=> (k = 1)
    /\ pc \notin {"get_directory", "create_account"} /\ run.result # "False"
          => Len(Builds) >= 1

\* a run that went as far as revoking the certificate
C9_Witness ==
    /\ \E k \in 1..Len(Posts) : Posts[k].op = "revoke_certificate"
    /\ \E k \in 1..Len(Posts) : Posts[k].op = "poll_resource_status"
    /\ Mode(Posts[1].env) = "jwk"

\* C10: as long as get_directory has not succeeded, no nonce request and no
\* signed request has been sent, and no operation has handed back a usable
\* result.
C10_NothingBeforeDirectory ==
    newNonce_url = None =>
        /\ \A i \in 1..Len(trace) : trace[i].ev = "get" => trace[i].url = args.dir
        /\ \A i \in 1..Len(trace) : ~IsPost(i)
        /\ ret.outcome # "value"

\* the status an operation requires of the answer to its signed request
Contractual(op) == IF op \in {"create_account", "issue_certificate"} THEN 201 ELSE 200

SignedInput(env) == decode_b64(env.signature)[1].sig.sha256

\* C12: the kid-mode builder given the empty string makes an envelope whose
\* payload field is the empty string and whose signing input is the encoded
\* header followed by one '.', and nothing after it; given the empty JSON
\* object it makes a different envelope, whose payload field and signing
\* input hold the encoding of '{}'.
C12_EmptyPayloadFraming ==
    \A k \in 1..Len(Builds) :
        LET b == Builds[k]
            empty_object == encode_b64(json_dumps(Dict(<<>>)))
        IN  Mode(b.env) = "kid" =>
              /\ b.payload = EmptyStr =>
                    /\ b.env.payload = EmptyStr
                    /\ SignedInput(b.env) = b.env.protected \o <<".">>
                    /\ Len(SignedInput(b.env)) = Len(b.env.protected) + 1
              /\ b.payload = Dict(<<>>) =>
                    /\ b.env.payload = empty_object
                    /\ b.env.payload # EmptyStr
                    /\ SignedInput(b.env) = b.env.protected \o <<".">> \o empty_object
                    /\ SignedInput(b.env) # b.env.protected \o <<".">>

\* the run has built an envelope for the empty string (authorization fetch)
\* and one for the empty JSON object (validate)
C12_Witness ==
    /\ \E k \in 1..Len(Builds) :
          /\ Builds[k].op = "authorize_certificate"
          /\ Builds[k].payload = EmptyStr
          /\ Builds[k].env.payload = EmptyStr
    /\ \E k \in 1..Len(Builds) :
          /\ Builds[k].op = "validate_certificate"
          /\ Builds[k].payload = Dict(<<>>)
          /\ Builds[k].env.payload # EmptyStr

IsProvision(e) == e.ev \in {"zone_add_TXT", "register_http_challenge"}
IsAuthorizePost(e) == e.ev = "post" /\ e.op = "authorize_certificate"

\* token + '.' + base64url(SHA-256(compact JSON of the account key's JWK))
KeyAuthorization(token) ==
    token \o <<".">> \o
    <<[b64 |-> <<[sha256 |-> <<[json |-> [crv |-> "P-256", kty |-> "EC",
                                           x |-> <<[b64 |-> KeyX]>>,
                                           y |-> <<[b64 |-> KeyY]>>],
                                 separators |-> "compact"]>>]>>]>>

\* C13: the key authorization of a token is token + '.' +
\* base64url(SHA-256(JSON of the JWK)); what authorize_certificate publishes
\* for the challenge it returns is, for dns-01, the TXT record
\* _acme-challenge.<identifier> with value base64url(SHA-256(key
\* authorization)) and, for http-01, the token with the key authorization
\* itself.
C13_KeyAuthorization ==
    \A k \in 1..Len(trace) :
        IsProvision(trace[k]) =>
            /\ k > 1 /\ IsAuthorizePost(trace[k - 1]) /\ trace[k - 1].status = 200
            /\ LET authz == trace[k - 1].body
                   e == trace[k]
               IN  \E j \in 1..Len(authz.challenges) :
                     LET c == authz.challenges[j]
                     IN  /\ create_key_authorization(c.token) = KeyAuthorization(c.token)
                         /\ k = Len(trace) => ret = Returned("authorize_certificate", "value", c)
                         /\ IF args.challenge = "dns01"
                            THEN /\ c.type = "dns-01"
                                 /\ e = [ev |-> "zone_add_TXT",
                                         name |-> "_acme-challenge." \o authz.identifier.value,
                                         value |-> <<[b64 |-> <<[sha256 |->
                                                        KeyAuthorization(c.token)]>>]>>]
                            ELSE /\ c.type = "http-01"
                                 /\ e = [ev |-> "register_http_challenge",
                                         token |-> c.token,
                                         key_auth |-> KeyAuthorization(c.token)]

\* both kinds of publication have happened: a TXT record for the second
\* domain of a dns01 run, or a registration of an http01 run
C13_Witness ==
    /\ ret.op = "authorize_certificate" /\ ret.outcome = "value"
    /\ IsProvision(trace[Len(trace)])
    /\ \/ /\ args.challenge = "dns01"
          /\ trace[Len(trace)].name = "_acme-challenge.d2.example"
       \/ /\ args.challenge = "http01"
          /\ trace[Len(trace)].key_auth = KeyAuthorization(ret.value.token)

\* the challenge type a scheme asks for
TypeOf(auth_scheme) == IF auth_scheme = "dns01" THEN "dns-01" ELSE "http-01"

\* C16: authorize_certificate returns the first challenge of the fetched
\* list whose type matches the scheme and makes exactly one provisioning
\* call, of the scheme's kind, for that challenge; with no such challenge,
\* or a fetch not answered 200, it returns no value and provisions nothing.
C16_FirstMatchingChallenge ==
    /\ \A k \in 1..Len(trace) :
          IsProvision(trace[k]) => k > 1 /\ IsAuthorizePost(trace[k - 1])
    /\ \A k \in 1..Len(trace) :
          IsAuthorizePost(trace[k]) =>
            LET a == trace[k]
                provisioned == k < Len(trace) /\ IsProvision(trace[k + 1])
                J == IF a.status = 200
                     THEN {j \in 1..Len(a.body.challenges) :
                              a.body.challenges[j].type = TypeOf(args.challenge)}
                     ELSE {}
            IN  IF J = {}
                THEN /\ ~provisioned
                     /\ k = Len(trace) => ret = Returned("authorize_certificate", "None", None)
                ELSE LET c == a.body.challenges[CHOOSE j \in J : \A i \in J : j <= i]
                     IN  /\ provisioned
                         /\ IF args.challenge = "dns01"
                            THEN /\ trace[k + 1].ev = "zone_add_TXT"
                                 /\ trace[k + 1].value =
                                      <<[b64 |-> <<[sha256 |-> KeyAuthorization(c.token)]>>]>>
                            ELSE /\ trace[k + 1].ev = "register_http_challenge"
                                 /\ trace[k + 1].token = c.token
                         /\ ~(k + 1 < Len(trace) /\ IsProvision(trace[k + 2]))
                         /\ k + 1 = Len(trace) =>
                                ret = Returned("authorize_certificate", "value", c)

\* the fetched list holds two challenges of the requested type and the
\* first one was returned
C16_Witness ==
    /\ ret.op = "authorize_certificate" /\ ret.outcome = "value"
    /\ LET authz == trace[Len(trace) - 1].body
       IN  /\ Len(authz.challenges) = 2
           /\ authz.challenges[1].type = TypeOf(args.challenge)
           /\ authz.challenges[2].type = TypeOf(args.challenge)
           /\ ret.value = authz.challenges[1]

FinalizePosted(t) == \E k \in 1..Len(t) : t[k].ev = "post" /\ IsFinalizePost(t[k])

\* C14: inside finalize_certificate an order status read before the
\* finalize POST ends the poll with success if it is ready, processing or
\* valid, with failure (and no finalize POST) if it is invalid, and keeps the
\* poll going otherwise; read after the finalize POST it ends the poll with
\* success only if it is valid, with failure if it is ready, invalid or
\* pending, and keeps the poll going if it is processing.
C14_AsymmetricPollStates ==
    [][(/\ Len(trace') > Len(trace)
        /\ trace'[Len(trace')].ev = "post"
        /\ IsPoll(trace'[Len(trace')])
        /\ trace'[Len(trace')].status = 200) =>
          LET s == trace'[Len(trace')].body
              failed == /\ ret' = Returned("finalize_certificate", "False", None)
                        /\ pc' = "returned"
                        /\ run'.result = "False"
              again == pc' = pc /\ sleeps' = sleeps + 1 /\ ret' = ret
          IN  IF ~FinalizePosted(trace)
              THEN /\ s \in {"ready", "processing", "valid"} =>
                        pc' = "finalize_post" /\ ret' = ret
                   /\ s = "invalid" => failed /\ ~FinalizePosted(trace')
                   /\ s \notin {"ready", "processing", "valid", "invalid"} => again
              ELSE /\ s = "valid" =>
                        /\ ret' = Returned("finalize_certificate", "value", CertUrl)
                        /\ pc' = "download_certificate"
                   /\ s \in {"ready", "invalid", "pending"} => failed
                   /\ s = "processing" => again]_vars

\* the first poll ended on processing, the finalize POST went out, and the
\* second poll went on after processing and ended on valid
C14_Witness ==
    /\ ret = Returned("finalize_certificate", "value", CertUrl)
    /\ frame.seen = <<"processing", "valid">>
    /\ \E k \in 2..Len(Posts) :
          /\ IsFinalizePost(Posts[k])
          /\ IsPoll(Posts[k - 1]) /\ Posts[k - 1].body = "processing"

IsValidatePost(e) == e.ev = "post" /\ e.op = "validate_certificate"
\* the positions before k of the authorization fetches answered 200
FetchedBefore(k) == {j \in 1..(k - 1) : IsAuthorizePost(trace[j]) /\ trace[j].status = 200}
ProvisionedBefore(k) == {j \in 1..(k - 1) : IsProvision(trace[j])}
ChallengeUrls(authz) == {authz.challenges[j].url : j \in 1..Len(authz.challenges)}
\* an event of finalize_certificate: an envelope built or sent for a poll or
\* for the finalize POST
IsFinalizeStep(e) == /\ e.ev \in {"build", "post"}
                     /\ e.op \in {"poll_resource_status", "finalize_certificate"}

\* C15: in a run of obtain_certificate a validate request is sent only
\* after every authorization of the order has been fetched and provisioned,
\* the proof for the challenge it names among them, and finalize_certificate
\* starts only after a validate request has been answered 200 for every
\* authorization.
C15_ProvisionValidateFinalize ==
    \A k \in 1..Len(trace) :
        /\ IsValidatePost(trace[k]) =>
              /\ Cardinality(FetchedBefore(k)) = Len(args.domain)
              /\ Cardinality(ProvisionedBefore(k)) = Len(args.domain)
              /\ \E j \in FetchedBefore(k) :
                    /\ IsProvision(trace[j + 1])
                    /\ \E c \in 1..Len(trace[j].body.challenges) :
                          LET ch == trace[j].body.challenges[c]
                          IN  /\ ch.url = trace[k].url
                              /\ IF args.challenge = "dns01"
                                 THEN trace[j + 1].value =
                                        <<[b64 |-> <<[sha256 |-> KeyAuthorization(ch.token)]>>]>>
                                 ELSE trace[j + 1].token = ch.token
        /\ IsFinalizeStep(trace[k]) =>
              /\ Cardinality(FetchedBefore(k)) = Len(args.domain)
              /\ \A j \in FetchedBefore(k) :
                    \E v \in (j + 1)..(k - 1) :
                        /\ IsValidatePost(trace[v])
                        /\ trace[v].status = 200
                        /\ trace[v].url \in ChallengeUrls(trace[j].body)

\* an order for two domains has reached the first poll of
\* finalize_certificate
C15_Witness ==
    /\ Len(args.domain) = 2
    /\ \E k \in 1..Len(trace) : trace[k].ev = "post" /\ IsPoll(trace[k])
    /\ Cardinality({k \in 1..Len(trace) : IsValidatePost(trace[k])}) = 2

\* C17: the JWK embedded in the protected header of the account-creation
\* envelope has exactly the members kty, crv, x and y, with kty = EC and
\* crv = P-256: the member set the key-authorization thumbprint is computed
\* over.
C17_JwkMembers ==
    \A k \in 1..Len(Builds) :
        Mode(Builds[k].env) = "jwk" =>
            LET jwk == Header(Builds[k].env).jwk
            IN  /\ DOMAIN jwk = {"kty", "crv", "x", "y"}
                /\ jwk.kty = "EC"
                /\ jwk.crv = "P-256"

\* C19: an answer to a poll whose HTTP status is not 200 never ends
\* poll_resource_status, whatever order status its body reports: the poller
\* sleeps and stays in the loop, whose next step sends a new signed
\* POST-as-GET; the poll returns a value or False only on an answer with
\* status 200.
C19_Non200NeverEndsPoll ==
    [][LET polled == /\ Len(trace') > Len(trace)
                     /\ trace'[Len(trace')].ev = "post"
                     /\ IsPoll(trace'[Len(trace')])
       IN  /\ (polled /\ trace'[Len(trace')].status # 200) =>
                  /\ pc' = "poll"
                  /\ sleeps' = sleeps + 1
                  /\ ret' = ret
           /\ (pc = "poll" /\ ret' # ret) =>
                  /\ polled
                  /\ trace'[Len(trace')].status = 200
                  /\ ret'.op = "poll_resource_status"
           /\ pc = "poll" =>
                  /\ polled
                  /\ Len(Posts') = Len(Posts) + 1
                  /\ Mode(trace'[Len(trace')].env) = "kid"
                  /\ trace'[Len(trace')].env.payload = EmptyStr]_vars

\* two answers with status 400 whose body reports a status of the success or
\* failure set, and the poll is still going on
C19_Witness ==
    /\ pc = "poll"
    /\ sleeps = 2
    /\ Len(Posts) >= 2
    /\ \A k \in (Len(Posts) - 1)..Len(Posts) :
          /\ IsPoll(Posts[k])
          /\ Posts[k].status = 400
          /\ Posts[k].body \in frame.success_states \cup frame.failure_states
    /\ \E k \in (Len(Posts) - 1)..Len(Posts) : Posts[k].body \in frame.failure_states
    /\ frame.seen = <<>>

\* C18: in the running application every step that reads or writes the
\* client's key, nonce or account identifier (it changes a field of the
\* client or builds an envelope from them) is a step of the thread that
\* drives obtain_certificate: it is taken while that thread is inside
\* obtain_certificate and is no step of the controller thread or of
\* controller() itself, whose steps all change app.
C18_ClientConfinedToIssuanceThread ==
    [][(\/ client' # client
        \/ nextNonce' # nextNonce
        \/ Len(trace') > Len(trace)) =>
          /\ app' = app
          /\ app.https_server_thread = "obtain_certificate"
          /\ ~app.exited
          /\ pc # "returned"]_vars

\* the controller thread has served a /shutdown request that failed and the
\* issuance thread has created the account and placed the order
C18_Witness ==
    /\ app.shutdowns = 1
    /\ app.controller_thread = "serving"
    /\ app.https_server_thread = "obtain_certificate"
    /\ account_kid \in Locations
    /\ ret.op = "issue_certificate" /\ ret.outcome = "value"

\* C20: when obtain_certificate fails at any step,
\* start_server_to_use_certificate does not start the HTTPS server and
\* reaches kill_all_processes, so that the process exits.
C20_FailureExitsProcess ==
    (/\ pc = "returned"
     /\ run.result # "value"
     /\ app.https_server_thread # "obtain_certificate") =>
        /\ app.https_server = "off"
        /\ app.https_server_thread \notin {"TypeError", "raised"}
        /\ app.exited

IsDownloadPost(e) == e.ev = "post" /\ e.op = "download_certificate"
IsRevokePost(e) == e.ev = "post" /\ e.op = "revoke_certificate"
\* the positions in the trace of the revoke requests sent so far
RevokeSent == {k \in 1..Len(trace) : IsRevokePost(trace[k])}
\* a download answered 200 lies before position k and the files are written
DownloadedBefore(k) ==
    /\ \E d \in 1..(k - 1) : IsDownloadPost(trace[d]) /\ trace[d].status = 200
    /\ run.written

\* C21: the HTTPS server is on only after the certificate was downloaded
\* with status 200 and the key and certificate files were written; with
\* --revoke the revoke request has then been sent, after the download, and
\* exactly once; without --revoke it is never sent; and whatever status the
\* revoke request is answered with, obtain_certificate returns its pair and
\* the thread does not end short of starting the server.
C21_ServerAfterDownloadAndRevoke ==
    /\ app.https_server = "on" =>
          /\ DownloadedBefore(Len(trace) + 1)
          /\ pc = "returned" /\ run.result = "value"
          /\ args.revoke => RevokeSent # {}
    /\ ~args.revoke => RevokeSent = {}
    /\ Cardinality(RevokeSent) <= 1
    /\ \A k \in RevokeSent :
          /\ DownloadedBefore(k)
          /\ app.https_server = "on" => pc = "returned"
          /\ pc = "returned" => run.result = "value"
          /\ app.https_server_thread \in {"obtain_certificate", "start_https_server"}

\* the revoke request was answered with a status other than 200 and the
\* HTTPS server is on
C21_Witness ==
    /\ app.https_server = "on"
    /\ args.revoke
    /\ \E k \in RevokeSent : trace[k].status # 200
    /\ ret = Returned("revoke_certificate", "None", None)

====
